---- MODULE Spec2Model ----
(***************************************************************************)
(* Model of main.py: the line reader exec_command_stream_output, the      *)
(* dispatcher Command.execute and the handlers of StderrCachingCommand    *)
(* and Df.  A line of text is a sequence of one-character strings, so     *)
(* that str.strip and the regular expression are computed, not assumed.   *)
(***************************************************************************)
EXTENDS Integers, Sequences, FiniteSets, TLC

\* ------------------------------------------------------------ bounds
\* Longest content of one channel of the remote command, in lines.
MaxLen == 2
\* Number of execute calls made on one command instance.
MaxRuns == 2
\* Number of handler calls a caller makes directly on the instance.
MaxCalls == 1
\* Longest argument list of a command, and number of build_command calls.
MaxArgs == 2
MaxBuilds == 2

\* ------------------------------------------------------------ text
\* The default of the parameter max_lines.
DefaultMaxLines == 10000

\* Characters str.strip() removes when called without an argument.
Whitespace == {" ", "\t", "\n", "\r", "\f"}

Digits == {"0", "1", "2", "3", "4", "5", "6", "7", "8", "9"}

RECURSIVE LStrip(_)
LStrip(s) ==
    IF s # <<>> /\ Head(s) \in Whitespace THEN LStrip(Tail(s)) ELSE s

RECURSIVE RStrip(_)
RStrip(s) ==
    IF s # <<>> /\ s[Len(s)] \in Whitespace
    THEN RStrip(SubSeq(s, 1, Len(s) - 1))
    ELSE s

\* str.strip(): leading and trailing whitespace removed.
Strip(s) == RStrip(LStrip(s))

\* The literal parts of the pattern /run/user/(\d+)/doc.
RunUserPrefix == <<"/", "r", "u", "n", "/", "u", "s", "e", "r", "/">>
DocSuffix == <<"/", "d", "o", "c">>

\* The literal lit occurs in s at index at.
LiteralAt(s, at, lit) ==
    /\ at >= 1
    /\ at + Len(lit) - 1 <= Len(s)
    /\ SubSeq(s, at, at + Len(lit) - 1) = lit

\* self.run_user_regex.search(line): the pattern matches somewhere in line.
RunUserRegexSearch(line) ==
    \E at \in 1..Len(line) :
        \E doc \in (at + Len(RunUserPrefix) + 1)..Len(line) :
            /\ LiteralAt(line, at, RunUserPrefix)
            /\ \A k \in (at + Len(RunUserPrefix))..(doc - 1) :
                   line[k] \in Digits
            /\ LiteralAt(line, doc, DocSuffix)

\* Lines a channel of the remote command can carry, as readline returns
\* them: a plain line, an empty line, the benign warning wrapped in
\* whitespace, and a path of the same shape without a user id.
PlainLine == <<"a", "\n">>
EmptyLine == <<"\n">>
WarnLine ==
    <<" ">> \o RunUserPrefix \o <<"1", "0">> \o DocSuffix \o <<" ", "\n">>
NoUidLine == RunUserPrefix \o DocSuffix \o <<"\n">>

\* What the command writes to its standard output and to its standard error.
StdoutLines == {PlainLine, WarnLine}
StderrLines == {EmptyLine, WarnLine, NoUidLine}
Lines == StdoutLines \cup StderrLines

\* Contents of one channel: at most MaxLen lines.
RECURSIVE SeqsUpTo(_, _)
SeqsUpTo(S, n) ==
    IF n = 0 THEN {<<>>}
    ELSE LET shorter == SeqsUpTo(S, n - 1)
         IN shorter \cup
            {Append(q, x) : q \in {r \in shorter : Len(r) = n - 1}, x \in S}

StdoutChannels == SeqsUpTo(StdoutLines, MaxLen)
StderrChannels == SeqsUpTo(StderrLines, MaxLen)

\* Values of max_lines a caller of the reader passes.
MaxLinesChoices == {-1, 0, 1, MaxLen, DefaultMaxLines}

Max(a, b) == IF a >= b THEN a ELSE b

\* ------------------------------------------------------------ command line
\* ' '.join(pieces).
RECURSIVE Join(_)
Join(pieces) ==
    IF pieces = <<>> THEN <<>>
    ELSE IF Len(pieces) = 1 THEN pieces[1]
    ELSE pieces[1] \o <<" ">> \o Join(Tail(pieces))

\* Variant: the executable is inserted into self.args itself.
BuildCommandNoCopy(executable, args) ==
    LET pieces == <<executable>> \o args
    IN [result |-> Join(pieces), args |-> pieces]

\* Command.build_command: the string returned, and self.args afterwards.
BuildCommand(executable, args) ==
    LET copy == args
        pieces == <<executable>> \o copy
    IN [result |-> Join(pieces), args |-> args]

\* Df passes 'df' to Command.__init__.
DfExecutable == <<"d", "f">>

\* Executables and arguments of commands: an option, a path, a quoted
\* word and the empty string.
Executables == {DfExecutable, <<"l", "s">>}
ArgTokens == {<<"-", "h">>, <<"/">>, <<"'", "a", "'">>, <<>>}
ArgLists == SeqsUpTo(ArgTokens, MaxArgs)

\* ------------------------------------------------------------ reader
\* stdout.readline() / stderr.readline(): the line at the read position,
\* or the empty string once the channel is exhausted.
Readline(channel, pos) ==
    IF pos < Len(channel) THEN channel[pos + 1] ELSE <<>>

\* Variant: the bound compared with <=.
BoundReachedOffByOne(max_lines, i) == 0 < max_lines /\ max_lines <= i

\* The guard "0 < max_lines < i" of the loop.
BoundReached(max_lines, i) == 0 < max_lines /\ max_lines < i

\* Variants: all() in place of any(); only the primary line looked at.
NoTextNotAll(stdout_line, stderr_line) ==
    ~(stdout_line # <<>> /\ stderr_line # <<>>)
NoTextStdoutOnly(stdout_line, stderr_line) == ~(stdout_line # <<>>)

\* The guard "not any([stdout_line, stderr_line])".
NoText(stdout_line, stderr_line) ==
    ~(stdout_line # <<>> \/ stderr_line # <<>>)

\* What a yield statement hands to the consumer.
Item(line, is_stderr) == [line |-> line, is_stderr |-> is_stderr]

\* A readline call or a yield of iteration i, on the primary or the
\* diagnostic channel; text tells whether the read returned any.
Op(op, is_stderr, i, text) ==
    [op |-> op, is_stderr |-> is_stderr, i |-> i, text |-> text]

\* The generator object exec_command_stream_output returns: its
\* parameter and locals, the read positions of the two channel files, the
\* statement it is suspended at, the number of reads made per channel, and
\* the reads and yields it has performed, in order.
NewGenerator(max_lines) ==
    [max_lines |-> max_lines, i |-> 0,
     stdout_pos |-> 0, stderr_pos |-> 0,
     stdout_line |-> <<>>, stderr_line |-> <<>>,
     at |-> "start", reads |-> 0, order |-> <<>>]

Finished(g) == [g EXCEPT !.at = "finished"]

\* The second yield of an iteration.
YieldStderr(g) ==
    [gen |-> [g EXCEPT !.at = "stderr_yielded",
                       !.order = Append(@, Op("yield", TRUE, g.i, TRUE))],
     stopped |-> FALSE,
     item |-> Item(Strip(g.stderr_line), TRUE)]

\* The first yield of an iteration.
YieldStdout(g) ==
    [gen |-> [g EXCEPT !.at = "stdout_yielded",
                       !.order = Append(@, Op("yield", FALSE, g.i, TRUE))],
     stopped |-> FALSE,
     item |-> Item(Strip(g.stdout_line), FALSE)]

StopIteration(g) ==
    [gen |-> Finished(g), stopped |-> TRUE, item |-> Item(<<>>, FALSE)]

\* Variant: the diagnostic line is yielded in preference to the primary one.
IterateStderrFirst(g, client) ==
    LET i == g.i + 1 IN
    IF BoundReached(g.max_lines, i) THEN StopIteration([g EXCEPT !.i = i])
    ELSE
      LET stdout_line == Readline(client.stdout, g.stdout_pos)
          stderr_line == Readline(client.stderr, g.stderr_pos)
          read == [g EXCEPT !.i = i,
                     !.stdout_line = stdout_line,
                     !.stderr_line = stderr_line,
                     !.stdout_pos = IF stdout_line # <<>> THEN @ + 1 ELSE @,
                     !.stderr_pos = IF stderr_line # <<>> THEN @ + 1 ELSE @,
                     !.reads = @ + 1,
                     !.order = @ \o
                         <<Op("read", FALSE, i, stdout_line # <<>>),
                           Op("read", TRUE, i, stderr_line # <<>>)>>]
      IN IF NoText(stdout_line, stderr_line) THEN StopIteration(read)
         ELSE IF stderr_line # <<>> THEN YieldStderr(read)
         ELSE YieldStdout(read)

\* One pass of "for i in count(1)" from its top to the first yield or break.
Iterate(g, client) ==
    LET i == g.i + 1 IN
    IF BoundReached(g.max_lines, i) THEN StopIteration([g EXCEPT !.i = i])
    ELSE
      LET stdout_line == Readline(client.stdout, g.stdout_pos)
          stderr_line == Readline(client.stderr, g.stderr_pos)
          read == [g EXCEPT !.i = i,
                     !.stdout_line = stdout_line,
                     !.stderr_line = stderr_line,
                     !.stdout_pos = IF stdout_line # <<>> THEN @ + 1 ELSE @,
                     !.stderr_pos = IF stderr_line # <<>> THEN @ + 1 ELSE @,
                     !.reads = @ + 1,
                     !.order = @ \o
                         <<Op("read", FALSE, i, stdout_line # <<>>),
                           Op("read", TRUE, i, stderr_line # <<>>)>>]
      IN IF NoText(stdout_line, stderr_line) THEN StopIteration(read)
         ELSE IF stdout_line # <<>> THEN YieldStdout(read)
         ELSE YieldStderr(read)

\* Variant: a diagnostic line read in the iteration is not yielded.
GeneratorNextDropsPending(g, client) ==
    CASE g.at = "finished" -> StopIteration(g)
      [] OTHER -> Iterate(g, client)

\* next(output): the generator runs from where it is suspended to its next
\* yield, or to its end.
GeneratorNext(g, client) ==
    CASE g.at = "finished" -> StopIteration(g)
      [] g.at = "stdout_yielded" ->
            IF g.stderr_line # <<>> THEN YieldStderr(g) ELSE Iterate(g, client)
      [] OTHER -> Iterate(g, client)

\* ------------------------------------------------------------ handlers
\* A handler works on a frame: the fields of the command instance it may
\* assign, the record of the handler invocations made so far, and whether
\* an exception is propagating.
Frame(latch, cached, log) ==
    [treat_stderr_as_stdout |-> latch, stderr_lines |-> cached,
     calls |-> log, raised |-> FALSE]

\* One handler invocation: the class whose method body runs, the method,
\* the caller, and the arguments.
Call(class, method, by, line_number, line) ==
    [class |-> class, method |-> method, by |-> by,
     line_number |-> line_number, line |-> line]

Entered(fr, class, method, by, line_number, line) ==
    [fr EXCEPT !.calls = Append(@, Call(class, method, by, line_number, line))]

\* Variant: the base method returns instead of raising.
CommandHandleStdoutLineReturns(fr, line_number, line) == fr

\* Command.handle_stdout_line: raise NotImplementedError.
CommandHandleStdoutLine(fr, line_number, line) ==
    [fr EXCEPT !.raised = TRUE]

\* Command.handle_stderr_line: raise NotImplementedError.
CommandHandleStderrLine(fr, line_number, line) ==
    [fr EXCEPT !.raised = TRUE]

\* Variant: the primary-line handler consults the pattern and sets the latch.
StderrCachingHandleStdoutLineLatching(fr, by, line_number, line) ==
    LET entered == Entered(fr, "StderrCachingCommand", "handle_stdout_line",
                           by, line_number, line)
    IN CommandHandleStdoutLine(
           [entered EXCEPT !.treat_stderr_as_stdout =
                               @ \/ RunUserRegexSearch(line)],
           line_number, line)

\* StderrCachingCommand.handle_stdout_line: return super().handle_stdout_line(...)
StderrCachingHandleStdoutLine(fr, by, line_number, line) ==
    CommandHandleStdoutLine(
        Entered(fr, "StderrCachingCommand", "handle_stdout_line", by,
                line_number, line),
        line_number, line)

\* Variant: the list is replaced by the current line before super() is called.
StderrCachingHandleStderrLineReset(fr, by, line_number, line) ==
    CommandHandleStderrLine(
        [Entered(fr, "StderrCachingCommand", "handle_stderr_line", by,
                 line_number, line) EXCEPT !.stderr_lines = <<line>>],
        line_number, line)

\* StderrCachingCommand.handle_stderr_line: the call of super(), then the
\* append, which runs only when that call returns.
StderrCachingHandleStderrLine(fr, by, line_number, line) ==
    LET super == CommandHandleStderrLine(
                     Entered(fr, "StderrCachingCommand", "handle_stderr_line",
                             by, line_number, line),
                     line_number, line)
    IN IF super.raised THEN super
       ELSE [super EXCEPT !.stderr_lines = Append(@, line)]

\* Variant: the latch follows the current line instead of staying set.
DfHandleStderrLineRelatch(fr, by, line_number, line) ==
    LET entered == Entered(fr, "Df", "handle_stderr_line", by,
                           line_number, line)
        latched == [entered EXCEPT
                       !.treat_stderr_as_stdout = RunUserRegexSearch(line)]
    IN IF latched.treat_stderr_as_stdout
       THEN StderrCachingHandleStdoutLine(latched, "Df.handle_stderr_line",
                                          line_number, line)
       ELSE StderrCachingHandleStderrLine(latched, "Df.handle_stderr_line",
                                          line_number, line)

\* Variant: the line is cached before the latch is consulted.
DfHandleStderrLineCacheFirst(fr, by, line_number, line) ==
    LET entered == Entered(fr, "Df", "handle_stderr_line", by,
                           line_number, line)
        cached == [entered EXCEPT !.stderr_lines = Append(@, line)]
        latched == IF ~cached.treat_stderr_as_stdout
                      /\ RunUserRegexSearch(line)
                   THEN [cached EXCEPT !.treat_stderr_as_stdout = TRUE]
                   ELSE cached
    IN IF latched.treat_stderr_as_stdout
       THEN StderrCachingHandleStdoutLine(latched, "Df.handle_stderr_line",
                                          line_number, line)
       ELSE StderrCachingHandleStderrLine(latched, "Df.handle_stderr_line",
                                          line_number, line)

\* Df.handle_stderr_line.
DfHandleStderrLine(fr, by, line_number, line) ==
    LET entered == Entered(fr, "Df", "handle_stderr_line", by,
                           line_number, line)
        latched == IF ~entered.treat_stderr_as_stdout
                      /\ RunUserRegexSearch(line)
                   THEN [entered EXCEPT !.treat_stderr_as_stdout = TRUE]
                   ELSE entered
    IN IF latched.treat_stderr_as_stdout
       THEN StderrCachingHandleStdoutLine(latched, "Df.handle_stderr_line",
                                          line_number, line)
       ELSE StderrCachingHandleStderrLine(latched, "Df.handle_stderr_line",
                                          line_number, line)

\* The handlers of a subclass of Command other than the ones above: the
\* two methods are abstract, so what an override does is up to the
\* subclass; it returns (ok) or raises.
SubclassHandleStdoutLine(fr, by, line_number, line, ok) ==
    [Entered(fr, "Subclass", "handle_stdout_line", by, line_number, line)
        EXCEPT !.raised = ~ok]

SubclassHandleStderrLine(fr, by, line_number, line, ok) ==
    [Entered(fr, "Subclass", "handle_stderr_line", by, line_number, line)
        EXCEPT !.raised = ~ok]

\* self.handle_stdout_line(...) resolved on the class of the instance.
HandleStdoutLine(class, fr, by, line_number, line, ok) ==
    IF class = "Df"
    THEN StderrCachingHandleStdoutLine(fr, by, line_number, line)
    ELSE SubclassHandleStdoutLine(fr, by, line_number, line, ok)

\* self.handle_stderr_line(...) resolved on the class of the instance.
HandleStderrLine(class, fr, by, line_number, line, ok) ==
    IF class = "Df"
    THEN DfHandleStderrLine(fr, by, line_number, line)
    ELSE SubclassHandleStderrLine(fr, by, line_number, line, ok)

\* Variant: the primary counter is not advanced.
StdoutLineNumStuck(stdout_line_num) == stdout_line_num + 0

\* "stdout_line_num += 1" and "stderr_line_num += 0" of Command.execute.
StdoutLineNumIncrement(stdout_line_num) == stdout_line_num + 1
StderrLineNumIncrement(stderr_line_num) == stderr_line_num + 0

\* ------------------------------------------------------------ return value
\* Python values main compares: None, and the integers.
NoneValue == [type |-> "NoneType", val |-> 0]
IntValue(n) == [type |-> "int", val |-> n]
\* No call of execute has returned to main.
NoValue == [type |-> "unset", val |-> 0]

\* a != b: None differs from every integer.
PyNotEqual(a, b) == a.type # b.type \/ a.val # b.val

\* Variant: execute ends with "return 0".
ExecuteResultZero == IntValue(0)

\* What execute returns: its body has no return statement.
ExecuteResult == NoneValue

\* The branch main takes on "if df_command.execute(ssh_client) != 0".
MainBranch(returned) ==
    IF PyNotEqual(returned, IntValue(0)) THEN "errors_occurred"
    ELSE "print_data"

\* ------------------------------------------------------------ state
VARIABLES
    cls,                     \* class of the command instance
    treat_stderr_as_stdout,  \* Df: the latch
    stderr_lines,            \* StderrCachingCommand: the cached lines
    ssh_client,              \* lines the two channels of the command carry
    output,                  \* the generator execute (or a caller) iterates
    stdout_line_num,         \* execute: local counter
    stderr_line_num,         \* execute: local counter
    pc,                      \* idle, running, returned, raised, reading
    events,                  \* items the generator has yielded
    calls,                   \* handler invocations of the current call
    runs,                    \* execute calls made so far
    ncalls,                  \* direct handler calls made so far
    executable,              \* Command.executable
    args,                    \* Command.args
    commands,                \* strings build_command has returned
    status,                  \* value the last execute returned
    branch                   \* branch main took on that value

vars == <<cls, treat_stderr_as_stdout, stderr_lines, ssh_client, output,
          stdout_line_num, stderr_line_num, pc, events, calls, runs, ncalls,
          executable, args, commands, status, branch>>

NoChannels == [stdout |-> <<>>, stderr |-> <<>>]

\* Arguments a caller passes to a handler directly.
Texts == {Strip(l) : l \in Lines}
LineNumbers == {1}

\* A command instance after construction: Df(), or an instance of another
\* concrete subclass of Command.
Init ==
    /\ cls \in {"Df", "Subclass"}
    /\ treat_stderr_as_stdout = FALSE
    /\ stderr_lines = <<>>
    /\ ssh_client = NoChannels
    /\ output = NewGenerator(DefaultMaxLines)
    /\ stdout_line_num = 0
    /\ stderr_line_num = 0
    /\ pc = "idle"
    /\ events = <<>>
    /\ calls = <<>>
    /\ runs = 0
    /\ ncalls = 0
    /\ executable = DfExecutable
    /\ args = <<>>
    /\ commands = <<>>
    /\ status = NoValue
    /\ branch = "none"

\* Command.execute up to its loop: the counters, and the generator over
\* the channels exec_command opens.
ExecuteStart ==
    /\ pc = "idle"
    /\ runs < MaxRuns
    /\ \E out \in StdoutChannels, err \in StderrChannels :
           ssh_client' = [stdout |-> out, stderr |-> err]
    /\ output' = NewGenerator(DefaultMaxLines)
    /\ stdout_line_num' = 0
    /\ stderr_line_num' = 0
    /\ pc' = "running"
    /\ events' = <<>>
    /\ calls' = <<>>
    /\ runs' = runs + 1
    /\ LET built == BuildCommand(executable, args)
       IN /\ args' = built.args
          /\ commands' = <<built.result>>
    /\ status' = NoValue
    /\ branch' = "none"
    /\ UNCHANGED <<cls, treat_stderr_as_stdout, stderr_lines, ncalls,
                   executable>>

\* One pass of "for line, is_stderr in output": the generator yields an
\* item and execute hands it to the handler of its channel.
ExecuteDispatch ==
    /\ pc = "running"
    /\ LET next == GeneratorNext(output, ssh_client)
           fr == Frame(treat_stderr_as_stdout, stderr_lines, calls)
       IN /\ ~next.stopped
          /\ output' = next.gen
          /\ events' = Append(events, next.item)
          /\ \E ok \in BOOLEAN :
               LET err_num == StderrLineNumIncrement(stderr_line_num)
                   out_num == StdoutLineNumIncrement(stdout_line_num)
                   done == IF next.item.is_stderr
                           THEN HandleStderrLine(cls, fr, "execute", err_num,
                                                 next.item.line, ok)
                           ELSE HandleStdoutLine(cls, fr, "execute", out_num,
                                                 next.item.line, ok)
               IN /\ stderr_line_num' =
                        IF next.item.is_stderr THEN err_num ELSE stderr_line_num
                  /\ stdout_line_num' =
                        IF next.item.is_stderr THEN stdout_line_num ELSE out_num
                  /\ treat_stderr_as_stdout' = done.treat_stderr_as_stdout
                  /\ stderr_lines' = done.stderr_lines
                  /\ calls' = done.calls
                  /\ pc' = IF done.raised THEN "raised" ELSE "running"
    /\ UNCHANGED <<cls, ssh_client, runs, ncalls, executable, args, commands,
                   status, branch>>

\* The generator is exhausted: the loop ends and execute returns None.
ExecuteReturn ==
    /\ pc = "running"
    /\ LET next == GeneratorNext(output, ssh_client)
       IN /\ next.stopped
          /\ output' = next.gen
    /\ pc' = "returned"
    /\ status' = ExecuteResult
    /\ UNCHANGED <<cls, treat_stderr_as_stdout, stderr_lines, ssh_client,
                   stdout_line_num, stderr_line_num, events, calls, runs,
                   ncalls, executable, args, commands, branch>>

\* Control is back in the caller of execute, with the value returned or
\* with the exception of a handler; the locals of execute are gone. A
\* caller like main branches on the value; an exception passes through it.
ExecuteExit ==
    /\ pc \in {"returned", "raised"}
    /\ ssh_client' = NoChannels
    /\ output' = NewGenerator(DefaultMaxLines)
    /\ stdout_line_num' = 0
    /\ stderr_line_num' = 0
    /\ events' = <<>>
    /\ calls' = <<>>
    /\ commands' = <<>>
    /\ branch' = IF pc = "returned" THEN MainBranch(status) ELSE "exception"
    /\ status' = NoValue
    /\ pc' = "idle"
    /\ UNCHANGED <<cls, treat_stderr_as_stdout, stderr_lines, runs, ncalls,
                   executable, args>>

\* A caller's own call of a handler, outside execute.
CallHandler(is_stderr) ==
    /\ pc = "idle"
    /\ ncalls < MaxCalls
    /\ \E line_number \in LineNumbers, line \in Texts, ok \in BOOLEAN :
         LET fr == Frame(treat_stderr_as_stdout, stderr_lines, <<>>)
             done == IF is_stderr
                     THEN HandleStderrLine(cls, fr, "caller", line_number,
                                           line, ok)
                     ELSE HandleStdoutLine(cls, fr, "caller", line_number,
                                           line, ok)
         IN /\ treat_stderr_as_stdout' = done.treat_stderr_as_stdout
            /\ stderr_lines' = done.stderr_lines
            /\ calls' = done.calls
    /\ ssh_client' = NoChannels
    /\ output' = NewGenerator(DefaultMaxLines)
    /\ stdout_line_num' = 0
    /\ stderr_line_num' = 0
    /\ events' = <<>>
    /\ pc' = "idle"
    /\ ncalls' = ncalls + 1
    /\ status' = NoValue
    /\ branch' = "none"
    /\ UNCHANGED <<cls, runs, executable, args, commands>>

CallHandleStdoutLine == CallHandler(FALSE)
CallHandleStderrLine == CallHandler(TRUE)

Next ==
    \/ ExecuteStart
    \/ ExecuteDispatch
    \/ ExecuteReturn
    \/ ExecuteExit
    \/ CallHandleStdoutLine
    \/ CallHandleStderrLine

Spec == Init /\ [][Next]_vars

\* ------------------------------------------------------------ the reader alone
\* A caller iterates exec_command_stream_output itself, with a max_lines
\* of its choice, and collects the items.
InitReader ==
    /\ cls = "Df"
    /\ treat_stderr_as_stdout = FALSE
    /\ stderr_lines = <<>>
    /\ \E out \in StdoutChannels, err \in StderrChannels :
           ssh_client = [stdout |-> out, stderr |-> err]
    /\ \E max_lines \in MaxLinesChoices : output = NewGenerator(max_lines)
    /\ stdout_line_num = 0
    /\ stderr_line_num = 0
    /\ pc = "reading"
    /\ events = <<>>
    /\ calls = <<>>
    /\ runs = 0
    /\ ncalls = 0
    /\ executable = DfExecutable
    /\ args = <<>>
    /\ commands = <<>>
    /\ status = NoValue
    /\ branch = "none"

ReaderNext ==
    /\ pc = "reading"
    /\ output.at # "finished"
    /\ LET next == GeneratorNext(output, ssh_client)
       IN /\ output' = next.gen
          /\ events' = IF next.stopped THEN events
                       ELSE Append(events, next.item)
    /\ UNCHANGED <<cls, treat_stderr_as_stdout, stderr_lines, ssh_client,
                   stdout_line_num, stderr_line_num, pc, calls, runs, ncalls,
                   executable, args, commands, status, branch>>

NextReader == ReaderNext

SpecReader == InitReader /\ [][NextReader]_vars

\* The caller keeps asking for the next item until the generator ends.
FairSpecReader == SpecReader /\ WF_vars(ReaderNext)

\* ------------------------------------------------------------ build_command alone
\* A command with an executable and arguments of the caller's choice, on
\* which build_command is called repeatedly.
InitBuild ==
    /\ cls = "Subclass"
    /\ treat_stderr_as_stdout = FALSE
    /\ stderr_lines = <<>>
    /\ ssh_client = NoChannels
    /\ output = NewGenerator(DefaultMaxLines)
    /\ stdout_line_num = 0
    /\ stderr_line_num = 0
    /\ pc = "building"
    /\ events = <<>>
    /\ calls = <<>>
    /\ runs = 0
    /\ ncalls = 0
    /\ executable \in Executables
    /\ args \in ArgLists
    /\ commands = <<>>
    /\ status = NoValue
    /\ branch = "none"

CallBuildCommand ==
    /\ pc = "building"
    /\ Len(commands) < MaxBuilds
    /\ LET built == BuildCommand(executable, args)
       IN /\ args' = built.args
          /\ commands' = Append(commands, built.result)
    /\ UNCHANGED <<cls, treat_stderr_as_stdout, stderr_lines, ssh_client,
                   output, stdout_line_num, stderr_line_num, pc, events,
                   calls, runs, ncalls, executable, status, branch>>

NextBuild == CallBuildCommand

SpecBuild == InitBuild /\ [][NextBuild]_vars

\* ------------------------------------------------------------ vocabulary of the claims
\* The lines of a channel as the reader hands them on.
Stripped(channel) == [j \in 1..Len(channel) |-> Strip(channel[j])]

\* The text of the yielded items of one channel, in the order yielded.
YieldedLines(is_stderr) ==
    LET own == SelectSeq(events, LAMBDA e : e.is_stderr = is_stderr)
    IN [j \in 1..Len(own) |-> own[j].line]

StdoutLen == Len(ssh_client.stdout)
StderrLen == Len(ssh_client.stderr)

\* max_lines does not cut the channels short.
WithinBound ==
    \/ output.max_lines <= 0
    \/ StdoutLen <= output.max_lines /\ StderrLen <= output.max_lines

\* The handler calls execute itself makes for one channel.
DispatchedTo(method) ==
    SelectSeq(calls, LAMBDA c : c.by = "execute" /\ c.method = method)

\* What Df.handle_stderr_line did with each line it was given: forwarded to
\* the primary-line handler, or passed on as diagnostic.
Classification ==
    LET routed == SelectSeq(calls, LAMBDA c : c.by = "Df.handle_stderr_line")
    IN [j \in 1..Len(routed) |->
           [line |-> routed[j].line,
            as |-> IF routed[j].method = "handle_stdout_line"
                   THEN "Primary" ELSE "Diagnostic"]]

\* The classification the latch prescribes for a sequence of diagnostic lines.
Reclassified(lines) ==
    [j \in 1..Len(lines) |->
        [line |-> lines[j],
         as |-> IF \E h \in 1..j : RunUserRegexSearch(lines[h])
                THEN "Primary" ELSE "Diagnostic"]]

RunEnded == pc \in {"returned", "raised"}

\* Index after which the entries of calls' are those of the step being taken.
CallsBefore == IF pc = "running" THEN Len(calls) ELSE 0

\* ------------------------------------------------------------ claims

C4_TerminatesWhenExhausted ==
    (output.max_lines = 0) =>
        <>[](/\ output.at = "finished"
             /\ output.i = Max(StdoutLen, StderrLen) + 1
             /\ output.reads = output.i
             /\ output.i - 1 >= Max(StdoutLen, StderrLen)
             /\ NoText(output.stdout_line, output.stderr_line))

C4_Witness ==
    /\ output.max_lines = 0
    /\ output.at = "finished"
    /\ StdoutLen = MaxLen
    /\ StderrLen = 1
    /\ output.i = MaxLen + 1

\* C5: with max_lines = N > 0 the reader reads each channel at most N
\* times and yields at most 2*N items, and it ends after exactly N
\* iterations when a channel holds more than N lines; with max_lines <= 0
\* it ends only with both channels read to their end.
C5_BoundedByMaxLines ==
    /\ output.max_lines > 0 =>
          /\ output.reads <= output.max_lines
          /\ output.stdout_pos <= output.max_lines
          /\ output.stderr_pos <= output.max_lines
          /\ Len(events) <= 2 * output.max_lines
          /\ (output.at = "finished"
                /\ (StdoutLen > output.max_lines
                      \/ StderrLen > output.max_lines))
             => output.reads = output.max_lines
    /\ (output.max_lines <= 0 /\ output.at = "finished") =>
          /\ output.stdout_pos = StdoutLen
          /\ output.stderr_pos = StderrLen

C5_Witness ==
    /\ output.max_lines = 1
    /\ output.at = "finished"
    /\ StdoutLen = MaxLen
    /\ StderrLen = MaxLen
    /\ output.reads = 1
    /\ Len(events) = 2

\* C6: every item the reader yields carries non-empty text.
C6_NonEmptyText ==
    \A j \in 1..Len(events) : events[j].line # <<>>

\* C1: at the end of a run of a Df command in which only the diagnostic
\* channel carries lines, the lines of that channel have been classified as
\* the latch prescribes: diagnostic before the first line matching the
\* pattern, primary from that line on.
C1_Reclassification ==
    (cls = "Df" /\ RunEnded /\ ssh_client.stdout = <<>>) =>
        Classification = Reclassified(Stripped(ssh_client.stderr))

\* C2: the latch starts unset; once set it stays set in every step, and a
\* step sets it only by handing Df.handle_stderr_line a line that matches
\* the pattern.
C2_LatchOneWay ==
    /\ ~treat_stderr_as_stdout
    /\ [][/\ treat_stderr_as_stdout => treat_stderr_as_stdout'
          /\ (~treat_stderr_as_stdout /\ treat_stderr_as_stdout') =>
                \E j \in (CallsBefore + 1)..Len(calls') :
                    /\ calls'[j].class = "Df"
                    /\ calls'[j].method = "handle_stderr_line"
                    /\ RunUserRegexSearch(calls'[j].line)]_vars

\* The latch is set and a later run has handled a diagnostic line that
\* does not match.
C2_Witness ==
    /\ cls = "Df"
    /\ treat_stderr_as_stdout
    /\ runs = 2
    /\ pc = "raised"
    /\ \E j \in 1..Len(calls) :
           /\ calls[j].class = "Df"
           /\ ~RunUserRegexSearch(calls[j].line)

\* C7: the k-th diagnostic-channel item of a run is handed to
\* handle_stderr_line with line number k.
C7_DiagnosticLineNumbers ==
    \A k \in 1..Len(DispatchedTo("handle_stderr_line")) :
        DispatchedTo("handle_stderr_line")[k].line_number = k

\* C8: the k-th primary-channel item of a run is handed to
\* handle_stdout_line with line number k and the text of the k-th primary
\* line, whatever was dispatched before it; the counter equals the number
\* of primary items dispatched and never decreases during the run.
C8_PrimaryLineNumbers ==
    /\ [](/\ \A k \in 1..Len(DispatchedTo("handle_stdout_line")) :
                /\ DispatchedTo("handle_stdout_line")[k].line_number = k
                /\ DispatchedTo("handle_stdout_line")[k].line
                       = Strip(ssh_client.stdout[k])
          /\ pc = "running" =>
                stdout_line_num = Len(DispatchedTo("handle_stdout_line")))
    /\ [][pc = "running" => stdout_line_num' >= stdout_line_num]_vars

\* The second primary line is handled after a diagnostic item.
C8_Witness ==
    /\ Len(DispatchedTo("handle_stdout_line")) = 2
    /\ Len(DispatchedTo("handle_stderr_line")) >= 1
    /\ calls[Len(calls)].method = "handle_stdout_line"
    /\ calls[Len(calls)].line_number = 2

\* C9: after the first run of a Df command, made on a fresh instance, in
\* which only the diagnostic channel carries lines and none of them matches
\* the pattern, stderr_lines is the sequence of the diagnostic lines of
\* the run.
C9_DiagnosticLog ==
    (/\ cls = "Df"
     /\ RunEnded
     /\ ssh_client.stdout = <<>>
     /\ runs = 1
     /\ ncalls = 0
     /\ \A j \in 1..StderrLen : ~RunUserRegexSearch(Strip(ssh_client.stderr[j])))
    => stderr_lines = Stripped(ssh_client.stderr)

\* C10: a step in which Df.handle_stderr_line forwards a line to the
\* primary-line handler leaves stderr_lines as it was; a step that changes
\* stderr_lines appends the lines it delivered as diagnostic; and after a
\* first run whose first diagnostic line matches, stderr_lines is empty.
DeliveredAsDiagnostic(c) ==
    c.class = "StderrCachingCommand" /\ c.method = "handle_stderr_line"

ForwardedToPrimary(c) ==
    c.by = "Df.handle_stderr_line" /\ c.method = "handle_stdout_line"

C10_OnlyDiagnosticCached ==
    /\ [][cls = "Df" =>
            LET new == SubSeq(calls', CallsBefore + 1, Len(calls'))
                kept == SelectSeq(new, DeliveredAsDiagnostic)
            IN /\ (\E j \in 1..Len(new) : ForwardedToPrimary(new[j]))
                      => stderr_lines' = stderr_lines
               /\ stderr_lines' # stderr_lines =>
                      stderr_lines' =
                          stderr_lines \o [j \in 1..Len(kept) |-> kept[j].line]
         ]_vars
    /\ [](/\ cls = "Df"
          /\ RunEnded
          /\ runs = 1
          /\ ncalls = 0
          /\ StderrLen > 0
          /\ RunUserRegexSearch(Strip(ssh_client.stderr[1]))
          => stderr_lines = <<>>)

\* The first diagnostic line of the run matched and was forwarded.
C10_Witness ==
    /\ cls = "Df"
    /\ pc = "raised"
    /\ runs = 1
    /\ ncalls = 0
    /\ treat_stderr_as_stdout
    /\ ssh_client.stdout = <<>>
    /\ \E j \in 1..Len(calls) : ForwardedToPrimary(calls[j])
    /\ stderr_lines = <<>>

\* The tokens of a string: its parts between single spaces.
RECURSIVE Tokens(_)
Tokens(s) ==
    IF \A k \in 1..Len(s) : s[k] # " " THEN <<s>>
    ELSE LET k == CHOOSE k \in 1..Len(s) :
                      s[k] = " " /\ \A h \in 1..(k - 1) : s[h] # " "
         IN <<SubSeq(s, 1, k - 1)>> \o Tokens(SubSeq(s, k + 1, Len(s)))

\* C11: every string build_command returns consists of the executable and
\* the arguments, unchanged and in order, separated by single spaces (N + 1
\* tokens for N arguments); self.args is as constructed after any number
\* of calls, and every call returns the same string.
C11_BuildCommand ==
    \A j \in 1..Len(commands) :
        /\ Tokens(commands[j]) = <<executable>> \o args
        /\ Len(Tokens(commands[j])) = Len(args) + 1
        /\ commands[j] = commands[1]

C11_Witness ==
    /\ pc = "building"
    /\ Len(commands) = 2
    /\ Len(args) = MaxArgs
    /\ \E j \in 1..Len(args) : args[j] = <<"'", "a", "'">>

\* All handler calls execute itself has made in the run.
Dispatched == SelectSeq(calls, LAMBDA c : c.by = "execute")

\* C12: no handler of a Df command raises: a run of a Df command never
\* ends with an exception, and when it ends every item of the two channels
\* has been dispatched.
C12_DfHandlersDoNotRaise ==
    cls = "Df" =>
        /\ pc # "raised"
        /\ pc = "returned" => Len(Dispatched) = StdoutLen + StderrLen

\* C13: an exception of a handler does not end the run: whatever the
\* handlers of a subclass do with a line, execute ends by returning, with
\* every item of the two channels dispatched.
C13_HandlerFailureDoesNotAbort ==
    (cls = "Subclass" /\ RunEnded) =>
        /\ pc = "returned"
        /\ Len(Dispatched) = Len(events)
        /\ Len(events) = StdoutLen + StderrLen

IsPrefix(s, t) == Len(s) <= Len(t) /\ SubSeq(t, 1, Len(s)) = s

\* C17: in every step (a handler call, a step of execute, a further
\* execute on the same instance) the old stderr_lines is a prefix of the
\* new one.
C17_AppendOnly ==
    [][IsPrefix(stderr_lines, stderr_lines')]_vars

\* A second execute on the same Df instance has entered the caching handler.
C17_Witness ==
    /\ cls = "Df"
    /\ runs = 2
    /\ pc = "raised"
    /\ \E j \in 1..Len(calls) :
           /\ calls[j].class = "StderrCachingCommand"
           /\ calls[j].method = "handle_stderr_line"
           /\ calls[j].line # <<>>

\* C19: a step in which execute hands a primary-channel item to
\* handle_stdout_line changes neither the latch, nor stderr_lines, nor the
\* diagnostic counter.
C19_StdoutHandlingFrame ==
    [][(/\ pc = "running"
        /\ Len(calls') > Len(calls)
        /\ calls'[Len(calls) + 1].by = "execute"
        /\ calls'[Len(calls) + 1].method = "handle_stdout_line")
       => /\ treat_stderr_as_stdout' = treat_stderr_as_stdout
          /\ stderr_lines' = stderr_lines
          /\ stderr_line_num' = stderr_line_num]_vars

\* A primary line that matches the pattern was handled by a Df command
\* and the latch is unset.
C19_Witness ==
    /\ cls = "Df"
    /\ pc = "raised"
    /\ ~treat_stderr_as_stdout
    /\ Len(calls) = 1
    /\ calls[1].by = "execute"
    /\ calls[1].method = "handle_stdout_line"
    /\ RunUserRegexSearch(calls[1].line)

\* Positions, in the order of the generator's reads and yields, of an
\* operation of iteration i.
Positions(op, is_stderr, i) ==
    {p \in 1..Len(output.order) :
        /\ output.order[p].op = op
        /\ output.order[p].is_stderr = is_stderr
        /\ output.order[p].i = i}

Iterations == 1..output.i

\* C15 as stated: the primary item of an iteration is yielded before the
\* diagnostic channel is read in that iteration, and before the
\* diagnostic item of the iteration.
C15_EmitBeforeOtherRead ==
    \A i \in Iterations :
        \A y \in Positions("yield", FALSE, i) :
            /\ \A r \in Positions("read", TRUE, i) : y < r
            /\ \A d \in Positions("yield", TRUE, i) : y < d

\* C15 as amended: both reads of an iteration, primary first, are made
\* before any item of the iteration is yielded; when both reads return
\* text the primary item is yielded before the diagnostic one.
C15_ReadBothThenEmit ==
    \A i \in Iterations :
        /\ \A r \in Positions("read", FALSE, i) :
               \A e \in Positions("read", TRUE, i) : r < e
        /\ \A r \in Positions("read", TRUE, i) :
               \A y \in Positions("yield", FALSE, i)
                         \cup Positions("yield", TRUE, i) : r < y
        /\ \A d \in Positions("yield", TRUE, i) :
               (\E r \in Positions("read", FALSE, i) : output.order[r].text)
               => \E y \in Positions("yield", FALSE, i) : y < d

\* Both reads of the first iteration returned text and both items were
\* yielded.
C15_Witness ==
    /\ Positions("yield", FALSE, 1) # {}
    /\ Positions("yield", TRUE, 1) # {}

\* C16: when execute resumes the generator into a new iteration, every
\* line read so far has been yielded and dispatched and its handler has
\* returned; a step makes at most one read per channel.
C16_NoReadAhead ==
    [][(pc = "running" /\ output'.reads # output.reads) =>
          /\ output'.reads = output.reads + 1
          /\ output'.stdout_pos <= output.stdout_pos + 1
          /\ output'.stderr_pos <= output.stderr_pos + 1
          /\ Len(events) = output.stdout_pos + output.stderr_pos
          /\ Len(Dispatched) = Len(events)
          /\ Len(SelectSeq(output'.order, LAMBDA o : o.op = "read"))
                 = 2 * output'.reads]_vars

\* The second iteration has been read after both items of the first were
\* handled.
C16_Witness ==
    /\ pc = "running"
    /\ output.reads = 2
    /\ Len(Dispatched) >= 3
    /\ Dispatched[1].method = "handle_stdout_line"
    /\ Dispatched[2].method = "handle_stderr_line"

\* C18: execute returns None whenever it returns, None differs from 0, and
\* so main takes the error-reporting branch after every run that returns
\* and never the branch that prints the data.
C18_ExecuteReturnsNone ==
    /\ pc = "returned" => status = NoneValue
    /\ status # NoValue => PyNotEqual(status, IntValue(0))
    /\ branch \in {"none", "errors_occurred", "exception"}
    /\ branch # "print_data"

\* A run of a Df command has returned and main reports errors.
C18_Witness ==
    /\ cls = "Df"
    /\ runs >= 1
    /\ pc = "idle"
    /\ branch = "errors_occurred"

====
